---- MODULE Spec2Model ----
(***************************************************************************)
(* Model of satpy/data_download.py: the process-wide file registry, the    *)
(* cache-key generator, retrieval through the external fetch primitive,    *)
(* bulk discovery and the DataDownloadMixin.                               *)
(*                                                                         *)
(* Python str values are sequences of one-character strings; Python None   *)
(* is the value None below, which is no sequence of characters.            *)
(***************************************************************************)
EXTENDS Integers, Sequences, FiniteSets, TLC

VARIABLES
    registry,   \* _FILE_REGISTRY: insertion-ordered dict, a sequence of <<key, known_hash>>
    urls,       \* _FILE_URLS: insertion-ordered dict, a sequence of <<key, url>>
    cache,      \* keys whose file is present in the data_dir cache directory
    events,     \* trace of logger.info messages and download attempts, in order
    last,       \* the last call: its operation, arguments, return value, exception
    pre,        \* registry, urls, cache and events as they were before the last call
    nops,       \* number of calls made so far
    env,        \* the installed component configurations (discovery's input)
    threads,    \* per-thread position and locals inside register_file
    hist        \* history of the register_file calls of the threads

vars == <<registry, urls, cache, events, last, pre, nops, env, threads, hist>>

----------------------------------------------------------------------------
(* Bounds of the model *)

MaxOps == 3
MaxLen == 2
MaxFiles == 2
MaxReaders == 2
MaxWriters == 1
MaxRuns == 2
MaxCalls == 3

----------------------------------------------------------------------------
(* Strings *)

None == <<"None">>
Absent == <<"Absent">>

\* the characters the model uses, in code-point order
ASCII == <<".", "/", ":",
           "A", "B", "C", "D", "E", "F", "G", "H", "I", "J", "K", "L", "M",
           "N", "O", "P", "Q", "R", "S", "T", "U", "V", "W", "X", "Y", "Z",
           "a", "b", "c", "d", "e", "f", "g", "h", "i", "j", "k", "l", "m",
           "n", "o", "p", "q", "r", "s", "t", "u", "v", "w", "x", "y", "z">>

CharSet == {ASCII[i] : i \in 1..Len(ASCII)}

OrdOf == [c \in CharSet |-> CHOOSE i \in 1..Len(ASCII) : ASCII[i] = c]

Ord(c) == OrdOf[c]

\* str.lower() on one character: "A".."Z" go to "a".."z"
LowerOf == [c \in CharSet |->
               IF OrdOf[c] >= OrdOf["A"] /\ OrdOf[c] <= OrdOf["Z"]
               THEN ASCII[OrdOf[c] + (OrdOf["a"] - OrdOf["A"])]
               ELSE c]

LowerChar(c) == LowerOf[c]

\* str.lower()
Lower(s) == [i \in 1..Len(s) |-> LowerChar(s[i])]

\* sub in s
Contains(s, sub) ==
    \E i \in 0..(Len(s) - Len(sub)) : SubSeq(s, i + 1, i + Len(sub)) = sub

\* s.rfind(c), as a 1-based index, 0 when c does not occur
RFind(s, c) ==
    IF \E i \in 1..Len(s) : s[i] = c
    THEN CHOOSE i \in 1..Len(s) : s[i] = c /\ \A j \in (i + 1)..Len(s) : s[j] # c
    ELSE 0

\* os.path.basename (posixpath): what follows the last "/"
Basename(p) == SubSeq(p, RFind(p, "/") + 1, Len(p))

\* s < t in Python's str order (lexicographic by code point)
RECURSIVE StrLess(_, _)
StrLess(s, t) ==
    IF t = <<>> THEN FALSE
    ELSE IF s = <<>> THEN TRUE
    ELSE IF Ord(s[1]) # Ord(t[1]) THEN Ord(s[1]) < Ord(t[1])
    ELSE StrLess(Tail(s), Tail(t))

\* Python truthiness of a str-or-None value
Truthy(x) == x # None /\ x # <<>>

READERS == <<"r", "e", "a", "d", "e", "r", "s">>
WRITERS == <<"w", "r", "i", "t", "e", "r", "s">>
COMPOSITES == <<"c", "o", "m", "p", "o", "s", "i", "t", "e", "s">>
OTHER_TYPE == <<"o", "t", "h", "e", "r">>

----------------------------------------------------------------------------
(* Insertion-ordered dict *)

DictHas(d, k) == \E i \in 1..Len(d) : d[i][1] = k

DictGet(d, k) == d[CHOOSE i \in 1..Len(d) : d[i][1] = k][2]

\* d[k] = v
DictSet(d, k, v) ==
    IF DictHas(d, k)
    THEN [i \in 1..Len(d) |-> IF d[i][1] = k THEN <<k, v>> ELSE d[i]]
    ELSE Append(d, <<k, v>>)

\* the keys in iteration order
DictKeys(d) == [i \in 1..Len(d) |-> d[i][1]]

KeySet(d) == {d[i][1] : i \in 1..Len(d)}

----------------------------------------------------------------------------
(* Key generator *)

\* a faulty variant: the component type is dropped
GenerateFilenameNoType(filename, component_type) ==
    IF filename = None THEN None ELSE filename

_generate_filename(filename, component_type) ==
    IF filename = None THEN None
    ELSE IF Truthy(component_type) THEN component_type \o <<"/">> \o filename
    ELSE filename

----------------------------------------------------------------------------
(* The external fetch primitive (pooch.create(...).fetch) and the cache *)

\* satpy.config.get('data_dir')
DataDir == <<"d">>

LocalPath(key) == DataDir \o <<"/">> \o key

NoExc == "none"

\* an entry of the trace: a download attempt, or a logger.info message
Event(type, key, url) == [type |-> type, key |-> key, url |-> url]

\* fetch of key with the given lookup tables and cache contents; stale is the
\* set of present files that fail verification, outcome what a download does
Fetch(reg, urlmap, files, key, stale, outcome) ==
    IF ~DictHas(reg, key)
    THEN [exc |-> "UnknownKey", ret |-> None, files |-> files, net |-> <<>>]
    ELSE IF key = None
    THEN [exc |-> "TypeError", ret |-> None, files |-> files, net |-> <<>>]
    ELSE IF key \in files /\ (DictGet(reg, key) = None \/ key \notin stale)
    THEN [exc |-> NoExc, ret |-> LocalPath(key), files |-> files, net |-> <<>>]
    ELSE LET url == IF DictHas(urlmap, key) THEN DictGet(urlmap, key)
                    ELSE LocalPath(key)
             att == <<Event("download", key, url)>>
         IN  IF outcome = "ok"
             THEN [exc |-> NoExc, ret |-> LocalPath(key),
                   files |-> files \cup {key}, net |-> att]
             ELSE IF outcome = "network"
             THEN [exc |-> "NetworkError", ret |-> None, files |-> files, net |-> att]
             ELSE [exc |-> "IntegrityError", ret |-> None, files |-> files, net |-> att]

\* an integrity failure needs a registered hash
OutcomeOk(reg, key, outcome) ==
    outcome = "integrity" => (DictHas(reg, key) /\ key # None /\ DictGet(reg, key) # None)

Outcomes == {"ok", "network", "integrity"}

----------------------------------------------------------------------------
(* Inputs of the registry specification *)

U1 == <<"x", "/", "a">>
U2 == <<"y", "/", "a">>
H1 == <<"h">>
FA == <<"a">>
FB == <<"b">>

Urls == {U1, U2}
Hashes == {None, H1}
Filenames == {None, FA, FB}
CompTypes == {None, READERS}

AllKeys == {_generate_filename(f, t) : f \in Filenames, t \in CompTypes}

Snapshot == [registry |-> registry, urls |-> urls, cache |-> cache, events |-> events]

Idle == [op |-> "none", ret |-> None, exc |-> NoExc]

----------------------------------------------------------------------------
(* register_file and retrieve *)

\* a faulty variant: the URL map is left alone
RegisterUrlsSkip(urlmap, fname, url) == urlmap

RegisterUrls(urlmap, fname, url) == DictSet(urlmap, fname, url)

\* a faulty variant: an existing hash is kept (first-write-wins)
RegisterHashKeep(reg, fname, known_hash) ==
    IF DictHas(reg, fname) THEN reg ELSE DictSet(reg, fname, known_hash)

RegisterHash(reg, fname, known_hash) == DictSet(reg, fname, known_hash)

register_file(reg, urlmap, url, filename, component_type, known_hash) ==
    LET fname == _generate_filename(filename, component_type)
    IN  [registry |-> RegisterHash(reg, fname, known_hash),
         urls |-> RegisterUrls(urlmap, fname, url),
         ret |-> fname]

RegisterFile ==
    /\ nops < MaxOps
    /\ \E url \in Urls, filename \in Filenames, ct \in CompTypes, h \in Hashes :
          LET r == register_file(registry, urls, url, filename, ct, h)
          IN  /\ registry' = r.registry
              /\ urls' = r.urls
              /\ last' = [op |-> "register_file", url |-> url, filename |-> filename,
                          component_type |-> ct, known_hash |-> h,
                          ret |-> r.ret, exc |-> NoExc]
    /\ pre' = Snapshot
    /\ nops' = nops + 1
    /\ UNCHANGED <<cache, events, env, threads, hist>>

\* a faulty variant: an unknown key is fetched from the default URL base
RetrieveFetchDefault(key, stale, outcome) ==
    Fetch(IF DictHas(registry, key) THEN registry ELSE DictSet(registry, key, None),
          urls, cache, key, stale, outcome)

RetrieveFetch(key, stale, outcome) ==
    Fetch(registry, urls, cache, key, stale, outcome)

retrieve(cache_key, stale, outcome) ==
    LET r == RetrieveFetch(cache_key, stale, outcome)
    IN  /\ cache' = r.files
        /\ events' = events \o r.net
        /\ last' = [op |-> "retrieve", cache_key |-> cache_key,
                    ret |-> r.ret, exc |-> r.exc]

Retrieve ==
    /\ nops < MaxOps
    /\ \E key \in AllKeys, stale \in SUBSET cache, outcome \in Outcomes :
          /\ OutcomeOk(registry, key, outcome)
          /\ retrieve(key, stale, outcome)
    /\ pre' = Snapshot
    /\ nops' = nops + 1
    /\ UNCHANGED <<registry, urls, env, threads, hist>>

NoEnv == <<>>
NoThreads == <<>>
NoHist == <<>>

Init ==
    /\ registry = <<>>
    /\ urls = <<>>
    /\ cache = {}
    /\ events = <<>>
    /\ last = Idle
    /\ pre = [registry |-> <<>>, urls |-> <<>>, cache |-> {}, events |-> <<>>]
    /\ nops = 0
    /\ env = NoEnv
    /\ threads = NoThreads
    /\ hist = NoHist

Next == RegisterFile \/ Retrieve

Spec == Init /\ [][Next]_vars

----------------------------------------------------------------------------
(* Claims about register_file and retrieve, under Spec *)

\* C1: after register_file with a non-null filename the call returns the key
\* component_type/filename (or filename alone when the type is empty), both
\* maps hold the new hash and URL under it, a key registered before keeps its
\* place (the sizes do not change) and every other entry is untouched.
C1_RegisterLastWriteWins ==
    (last.op = "register_file" /\ last.filename # None) =>
        LET k == last.ret
        IN  /\ k = IF Truthy(last.component_type)
                   THEN last.component_type \o <<"/">> \o last.filename
                   ELSE last.filename
            /\ DictHas(registry, k) /\ DictGet(registry, k) = last.known_hash
            /\ DictHas(urls, k) /\ DictGet(urls, k) = last.url
            /\ KeySet(registry) = KeySet(pre.registry) \cup {k}
            /\ KeySet(urls) = KeySet(pre.urls) \cup {k}
            /\ DictHas(pre.registry, k) => Len(registry) = Len(pre.registry)
            /\ DictHas(pre.urls, k) => Len(urls) = Len(pre.urls)
            /\ \A k2 \in KeySet(pre.registry) \ {k} :
                  DictGet(registry, k2) = DictGet(pre.registry, k2)
            /\ \A k2 \in KeySet(pre.urls) \ {k} :
                  DictGet(urls, k2) = DictGet(pre.urls, k2)

\* a key is registered again with another hash and another URL, beside another key
C1_Witness ==
    /\ last.op = "register_file" /\ last.filename # None
    /\ DictHas(pre.registry, last.ret)
    /\ DictGet(pre.registry, last.ret) # last.known_hash
    /\ DictGet(pre.urls, last.ret) # last.url
    /\ Len(pre.registry) >= 2

\* C2: register_file with a null filename returns the null key and inserts
\* nothing: neither map ever holds the null key, and such a call leaves both
\* maps as they were.
C2_NullFilenameIsNoOp ==
    /\ None \notin KeySet(registry)
    /\ None \notin KeySet(urls)
    /\ (last.op = "register_file" /\ last.filename = None) =>
          (last.ret = None /\ registry = pre.registry /\ urls = pre.urls)

\* C3: retrieve of a key that is not registered fails with the unknown-key
\* error, without any download attempt and without touching the cache.
C3_UnknownKeyNoNetwork ==
    (last.op = "retrieve" /\ ~DictHas(pre.registry, last.cache_key)) =>
        /\ last.exc = "UnknownKey"
        /\ events = pre.events
        /\ cache = pre.cache

\* an unregistered key is retrieved while other keys are registered
C3_Witness ==
    /\ last.op = "retrieve"
    /\ ~DictHas(pre.registry, last.cache_key)
    /\ last.cache_key # None
    /\ Len(pre.registry) >= 1
    /\ last.exc = "UnknownKey"

----------------------------------------------------------------------------
(* The key generator on its own: SpecKey *)

RECURSIVE StringsOver(_, _)
StringsOver(alphabet, n) ==
    IF n = 0 THEN {<<>>}
    ELSE LET shorter == StringsOver(alphabet, n - 1)
         IN  shorter \cup {Append(s, c) : s \in shorter, c \in alphabet}

KeyFilenames == StringsOver({"x", "/"}, MaxLen) \cup {None}
KeyCompTypes == StringsOver({"r", "w", "/"}, MaxLen) \cup {None}

KeyInit ==
    /\ registry = <<>>
    /\ urls = <<>>
    /\ cache = {}
    /\ events = <<>>
    /\ \E f1 \in KeyFilenames, f2 \in KeyFilenames,
          t1 \in KeyCompTypes, t2 \in KeyCompTypes :
          last = [op |-> "inputs", f1 |-> f1, t1 |-> t1, f2 |-> f2, t2 |-> t2,
                  k1 |-> None, k2 |-> None]
    /\ pre = [registry |-> <<>>, urls |-> <<>>, cache |-> {}, events |-> <<>>]
    /\ nops = 0
    /\ env = NoEnv
    /\ threads = NoThreads
    /\ hist = NoHist

GenerateKeys ==
    /\ last.op = "inputs"
    /\ last' = [last EXCEPT !.op = "generate_key",
                            !.k1 = _generate_filename(last.f1, last.t1),
                            !.k2 = _generate_filename(last.f2, last.t2)]
    /\ UNCHANGED <<registry, urls, cache, events, pre, nops, env, threads, hist>>

KeyNext == GenerateKeys

SpecKey == KeyInit /\ [][KeyNext]_vars

\* C5 as stated: any two inputs with non-null filenames and different
\* component types get different keys.
C5_InjectiveWhenTypeDiffers ==
    (/\ last.op = "generate_key"
     /\ last.f1 # None /\ last.f2 # None
     /\ last.t1 # last.t2) => last.k1 # last.k2

\* C5 as amended: two inputs with non-null filenames get different keys when
\* their component types differ, are both non-empty and hold no "/".
C5_InjectiveForPlainTypes ==
    (/\ last.op = "generate_key"
     /\ last.f1 # None /\ last.f2 # None
     /\ Truthy(last.t1) /\ Truthy(last.t2)
     /\ ~Contains(last.t1, <<"/">>) /\ ~Contains(last.t2, <<"/">>)
     /\ last.t1 # last.t2) => last.k1 # last.k2

\* the same filename, holding a "/", under two plain component types
C5_Witness ==
    /\ last.op = "generate_key"
    /\ last.f1 = last.f2 /\ last.f1 # None /\ Contains(last.f1, <<"/">>)
    /\ Truthy(last.t1) /\ Truthy(last.t2)
    /\ ~Contains(last.t1, <<"/">>) /\ ~Contains(last.t2, <<"/">>)
    /\ last.t1 # last.t2
    /\ last.k1 # last.k2

----------------------------------------------------------------------------
(* DataDownloadMixin: SpecMixin *)

DATA_FILE_COMPONENTS ==
    << <<<<"r", "e", "a", "d", "e", "r">>, READERS>>,
       <<<<"w", "r", "i", "t", "e", "r">>, WRITERS>>,
       <<<<"c", "o", "m", "p", "o", "s", "i", "t">>, COMPOSITES>> >>

\* a faulty variant: the class name is matched without lowercasing it
ComponentTypeCaseSensitive(cls_name) ==
    LET hits == {i \in 1..Len(DATA_FILE_COMPONENTS) :
                    Contains(cls_name, DATA_FILE_COMPONENTS[i][1])}
    IN  IF hits = {} THEN OTHER_TYPE
        ELSE DATA_FILE_COMPONENTS[CHOOSE i \in hits : \A j \in hits : i <= j][2]

\* the property _data_file_component_type: the first rule, in the dict's
\* order, whose substring occurs in the lowercased class name
_data_file_component_type(cls_name) ==
    LET name == Lower(cls_name)
        hits == {i \in 1..Len(DATA_FILE_COMPONENTS) :
                    Contains(name, DATA_FILE_COMPONENTS[i][1])}
    IN  IF hits = {} THEN OTHER_TYPE
        ELSE DATA_FILE_COMPONENTS[CHOOSE i \in hits : \A j \in hits : i <= j][2]

\* dict.get(key, default) on a descriptor field
GetOr(value, default) == IF value = Absent THEN default ELSE value

\* _register_data_file: a missing url raises KeyError before anything is stored
_register_data_file(reg, urlmap, entry, comp_type) ==
    IF entry.url = Absent
    THEN [exc |-> "KeyError", registry |-> reg, urls |-> urlmap, ret |-> None]
    ELSE LET filename == GetOr(entry.filename, Basename(entry.url))
             known_hash == GetOr(entry.known_hash, None)
             r == register_file(reg, urlmap, entry.url, filename, comp_type, known_hash)
         IN  [exc |-> NoExc, registry |-> r.registry, urls |-> r.urls, ret |-> r.ret]

\* the loop of register_data_files over data_files[i..]
RECURSIVE RegisterLoop(_, _, _, _, _, _)
RegisterLoop(data_files, i, reg, urlmap, cache_keys, comp_type) ==
    IF i > Len(data_files)
    THEN [exc |-> NoExc, registry |-> reg, urls |-> urlmap, ret |-> cache_keys]
    ELSE LET r == _register_data_file(reg, urlmap, data_files[i], comp_type)
         IN  IF r.exc # NoExc
             THEN [exc |-> r.exc, registry |-> r.registry, urls |-> r.urls, ret |-> None]
             ELSE RegisterLoop(data_files, i + 1, r.registry, r.urls,
                               Append(cache_keys, r.ret), comp_type)

\* a metadata dict (info or config): whether it has the data_files key, and the list
MetaDict(has_key, data_files) == [has_data_files |-> has_key, data_files |-> data_files]

\* df_parent.get('data_files', [])
DataFilesOf(df_parent) ==
    IF df_parent.has_data_files THEN df_parent.data_files ELSE <<>>

\* the data_files argument: None (the default) or a list
NoList == [is_none |-> TRUE, items |-> <<>>]
List(items) == [is_none |-> FALSE, items |-> items]

\* getattr(self, 'info', self.config).get('data_files', []): the default
\* self.config is evaluated before getattr is called
Metadata(self) ==
    IF ~self.has_config THEN [exc |-> "AttributeError", data_files |-> <<>>]
    ELSE IF self.has_info THEN [exc |-> NoExc, data_files |-> DataFilesOf(self.info)]
    ELSE [exc |-> NoExc, data_files |-> DataFilesOf(self.config)]

register_data_files(reg, urlmap, self, data_files) ==
    LET comp_type == _data_file_component_type(self.cls)
        m == IF data_files.is_none THEN Metadata(self)
             ELSE [exc |-> NoExc, data_files |-> data_files.items]
    IN  IF m.exc # NoExc
        THEN [exc |-> m.exc, registry |-> reg, urls |-> urlmap, ret |-> None]
        ELSE RegisterLoop(m.data_files, 1, reg, urlmap, <<>>, comp_type)

URL_Y == <<"h", "t", "t", "p", "s", ":", "/", "/", "x", "/", "y", ".", "b", "i", "n">>
READERS_Y_BIN == <<"r", "e", "a", "d", "e", "r", "s", "/", "y", ".", "b", "i", "n">>

Descriptor(url, filename, known_hash) ==
    [url |-> url, filename |-> filename, known_hash |-> known_hash]

D_Y == Descriptor(URL_Y, Absent, Absent)
D_CUSTOM == Descriptor(URL_Y, FA, H1)
D_SAME_KEY == Descriptor(U1, Absent, None)
D_NULL_NAME == Descriptor(URL_Y, None, Absent)
D_NO_URL == Descriptor(Absent, FA, Absent)

Descriptors == {D_Y, D_CUSTOM, D_SAME_KEY, D_NULL_NAME, D_NO_URL}

RECURSIVE ListsOver(_, _)
ListsOver(S, n) ==
    IF n = 0 THEN {<<>>}
    ELSE LET shorter == ListsOver(S, n - 1)
         IN  shorter \cup {Append(l, x) : l \in shorter, x \in S}

\* the metadata dicts a component may carry
MetaDicts == {MetaDict(FALSE, <<>>), MetaDict(TRUE, <<>>), MetaDict(TRUE, <<D_Y>>),
              MetaDict(TRUE, <<D_CUSTOM, D_Y>>)}

ClassNames ==
    { <<"M", "y", "R", "e", "a", "d", "e", "r", "H", "a", "n", "d", "l", "e", "r">>,
      <<"G", "e", "o", "T", "I", "F", "F", "W", "r", "i", "t", "e", "r">>,
      <<"G", "e", "n", "e", "r", "i", "c", "C", "o", "m", "p", "o", "s", "i", "t", "o", "r">>,
      <<"W", "R", "I", "T", "E", "R">>,
      <<"W", "r", "i", "t", "e", "r", "R", "e", "a", "d", "e", "r">>,
      <<"E", "n", "h", "a", "n", "c", "e", "r">> }

Components ==
    { [cls |-> c, has_info |-> hi, info |-> IF hi THEN i ELSE MetaDict(FALSE, <<>>),
       has_config |-> hc, config |-> IF hc THEN g ELSE MetaDict(FALSE, <<>>)] :
         c \in ClassNames, hi \in BOOLEAN, hc \in BOOLEAN,
         i \in MetaDicts, g \in MetaDicts }

READERS_A == READERS \o <<"/">> \o FA

MixinInit ==
    /\ \E prior \in BOOLEAN :
          /\ registry = IF prior THEN <<<<READERS_A, None>>>> ELSE <<>>
          /\ urls = IF prior THEN <<<<READERS_A, U2>>>> ELSE <<>>
          /\ pre = [registry |-> registry, urls |-> urls, cache |-> {}, events |-> <<>>]
    /\ cache = {}
    /\ events = <<>>
    /\ last = Idle
    /\ nops = 0
    /\ env \in Components
    /\ threads = NoThreads
    /\ hist = NoHist

\* the component's initialisation calls register_data_files once
RegisterDataFiles ==
    /\ nops = 0
    /\ \E data_files \in {NoList} \cup {List(l) : l \in ListsOver(Descriptors, MaxFiles)} :
          LET r == register_data_files(registry, urls, env, data_files)
          IN  /\ registry' = r.registry
              /\ urls' = r.urls
              /\ last' = [op |-> "register_data_files", data_files |-> data_files,
                          ret |-> r.ret, exc |-> r.exc]
    /\ pre' = Snapshot
    /\ nops' = nops + 1
    /\ UNCHANGED <<cache, events, env, threads, hist>>

MixinNext == RegisterDataFiles

SpecMixin == MixinInit /\ [][MixinNext]_vars

(* what the claims say, stated apart from the model of the code *)

\* the final path segment of a URL: what follows its last "/"
FinalSegment(u) ==
    LET n == CHOOSE n \in 0..Len(u) :
                 /\ \A j \in (n + 1)..Len(u) : u[j] # "/"
                 /\ n = 0 \/ u[n] = "/"
    IN  SubSeq(u, n + 1, Len(u))

ClaimedType(cls) ==
    LET name == Lower(cls)
    IN  IF Contains(name, <<"r", "e", "a", "d", "e", "r">>) THEN READERS
        ELSE IF Contains(name, <<"w", "r", "i", "t", "e", "r">>) THEN WRITERS
        ELSE IF Contains(name, <<"c", "o", "m", "p", "o", "s", "i", "t">>) THEN COMPOSITES
        ELSE OTHER_TYPE

ClaimedKey(d, T) ==
    LET filename == IF d.filename = Absent THEN FinalSegment(d.url) ELSE d.filename
    IN  IF filename = None THEN None ELSE T \o <<"/">> \o filename

\* the list the claims have a call work on
ClaimedFiles ==
    IF ~last.data_files.is_none THEN last.data_files.items
    ELSE IF env.has_info THEN DataFilesOf(env.info)
    ELSE DataFilesOf(env.config)

\* C4: a call of register_data_files that returns has registered every
\* descriptor, in order, under generate_key(filename or the URL's final
\* segment, inferred type), the last descriptor of a key deciding its hash and
\* URL, and returns these keys in declaration order; MyReaderHandler with the
\* one descriptor {url: https://x/y.bin} yields <<"readers/y.bin">>.
C4_DataFilesRegisteredInOrder ==
    (last.op = "register_data_files" /\ last.exc = NoExc) =>
        LET files == ClaimedFiles
            T == ClaimedType(env.cls)
        IN  /\ Len(last.ret) = Len(files)
            /\ \A i \in 1..Len(files) :
                  /\ last.ret[i] = ClaimedKey(files[i], T)
                  /\ DictHas(registry, last.ret[i]) /\ DictHas(urls, last.ret[i])
                  /\ (\A j \in (i + 1)..Len(files) :
                         ClaimedKey(files[j], T) # ClaimedKey(files[i], T)) =>
                        /\ DictGet(urls, last.ret[i]) = files[i].url
                        /\ DictGet(registry, last.ret[i]) = GetOr(files[i].known_hash, None)
            /\ KeySet(registry) = KeySet(pre.registry) \cup {last.ret[i] : i \in 1..Len(files)}
            /\ (env.cls = <<"M", "y", "R", "e", "a", "d", "e", "r", "H", "a", "n", "d", "l", "e", "r">>
                /\ files = <<D_Y>>) => last.ret = <<READERS_Y_BIN>>

\* MyReaderHandler registers the one descriptor {url: https://x/y.bin}
C4_Witness ==
    /\ last.op = "register_data_files" /\ last.exc = NoExc
    /\ env.cls = <<"M", "y", "R", "e", "a", "d", "e", "r", "H", "a", "n", "d", "l", "e", "r">>
    /\ last.data_files = List(<<D_Y>>)
    /\ last.ret = <<READERS_Y_BIN>>
    /\ DictGet(urls, READERS_Y_BIN) = URL_Y

\* C8: register_data_files without a list works on info['data_files'] when
\* the component has info and on config['data_files'] otherwise; a component
\* with only one of the two attributes registers its files without error, and
\* one whose metadata has no data_files entry registers nothing and returns
\* the empty list.
C8_MetadataFromInfoOrConfig ==
    (/\ last.op = "register_data_files"
     /\ last.data_files.is_none
     /\ env.has_info \/ env.has_config) =>
        LET files == ClaimedFiles
        IN  /\ last.exc = NoExc
            /\ Len(last.ret) = Len(files)
            /\ \A i \in 1..Len(files) :
                  last.ret[i] = ClaimedKey(files[i], ClaimedType(env.cls))
            /\ files = <<>> => (registry = pre.registry /\ urls = pre.urls)

----------------------------------------------------------------------------
(* Bulk discovery and retrieve_all: SpecBulk *)

\* what loading one component configuration does: it loads, or raises
LoadOutcomes == {"ok", "ModuleNotFoundError", "YAMLError", "ValueError"}

\* the data file the i-th configuration of a kind declares
ComponentUrl(i) == <<"x", "/", ASCII[Ord("a") + i - 1]>>

READER_CLASS == <<"F", "i", "l", "e", "Y", "A", "M", "L", "R", "e", "a", "d", "e", "r">>
WRITER_CLASS == <<"G", "e", "o", "T", "I", "F", "F", "W", "r", "i", "t", "e", "r">>
COMPOSITOR_CLASS ==
    <<"G", "e", "n", "e", "r", "i", "c", "C", "o", "m", "p", "o", "s", "i", "t", "o", "r">>

\* the component the i-th configuration of a class builds: its metadata
\* declares one data file, with a hash for readers
LoadedComponent(cls, i) ==
    [cls |-> cls, has_info |-> TRUE,
     info |-> MetaDict(TRUE, <<Descriptor(ComponentUrl(i), Absent,
                                          IF cls = READER_CLASS THEN H1 ELSE Absent)>>),
     has_config |-> TRUE, config |-> MetaDict(FALSE, <<>>)]

\* loading a component that loads: its initialisation registers its data files
LoadComponent(reg, urlmap, cls, i) ==
    register_data_files(reg, urlmap, LoadedComponent(cls, i), NoList)

\* the state discovery threads through its loops
Discovery(exc, reg, urlmap) == [exc |-> exc, registry |-> reg, urls |-> urlmap]

\* one iteration of a loading loop: the configuration loads and registers its
\* files, or raises; an exception among caught is skipped (continue)
LoadStep(st, outcome, cls, i, caught) ==
    IF outcome = "ok"
    THEN LET r == LoadComponent(st.registry, st.urls, cls, i)
         IN  Discovery(r.exc, r.registry, r.urls)
    ELSE IF outcome \in caught THEN st
    ELSE Discovery(outcome, st.registry, st.urls)

\* a loading loop over configs[i..]: an exception that is not caught ends it
\* (the singleton binding has each iteration evaluated once)
RECURSIVE LoadLoop(_, _, _, _, _)
LoadLoop(configs, i, st, cls, caught) ==
    IF st.exc # NoExc \/ i > Len(configs) THEN st
    ELSE CHOOSE out \in {LoadLoop(configs, i + 1, nxt, cls, caught) :
                            nxt \in {LoadStep(st, configs[i], cls, i, caught)}} : TRUE

\* CompositorLoader.load_compositors: a compositing configuration that fails
\* to load is skipped inside the loader
CompositorCaught == LoadOutcomes \ {"ok"}

load_compositors(configs, st) ==
    LoadLoop(configs, 1, st, COMPOSITOR_CLASS, CompositorCaught)

\* except (ModuleNotFoundError, yaml.YAMLError): continue
ReaderCaught == {"ModuleNotFoundError", "YAMLError"}

\* except ValueError: continue
WriterCaught == {"ValueError"}

_find_registerable_files_compositors(st, e) == load_compositors(e.compositors, st)

_find_registerable_files_readers(st, e) ==
    LoadLoop(e.readers, 1, st, READER_CLASS, ReaderCaught)

_find_registerable_files_writers(st, e) ==
    LoadLoop(e.writers, 1, st, WRITER_CLASS, WriterCaught)

\* sorted(d.keys()): None does not compare with a str
Sorted(d) ==
    LET keys == KeySet(d)
        rank(k) == Cardinality({k2 \in keys : StrLess(k2, k)}) + 1
    IN  IF None \in keys /\ Cardinality(keys) >= 2
        THEN [exc |-> "TypeError", ret |-> None]
        ELSE [exc |-> NoExc,
              ret |-> [i \in 1..Cardinality(keys) |-> CHOOSE k \in keys : rank(k) = i]]

\* return sorted(_FILE_REGISTRY.keys()), reached when nothing was raised
SortedKeys(w) ==
    IF w.exc # NoExc
    THEN [exc |-> w.exc, registry |-> w.registry, urls |-> w.urls, ret |-> None]
    ELSE CHOOSE out \in {[exc |-> s.exc, registry |-> w.registry, urls |-> w.urls,
                          ret |-> s.ret] : s \in {Sorted(w.registry)}} : TRUE

find_registerable_files(reg, urlmap, e) ==
    CHOOSE out \in
        {SortedKeys(w) : w \in
            {_find_registerable_files_writers(r, e) : r \in
                {_find_registerable_files_readers(c, e) : c \in
                    {_find_registerable_files_compositors(
                        Discovery(NoExc, reg, urlmap), e)}}}} : TRUE

Progress(key) == Event("info: Downloading extra data file", key, None)
Done == Event("info: Done downloading all extra files.", None, None)

\* a faulty variant: the progress message is logged after the fetch
IterationEventsLogAfter(key, net) == net \o <<Progress(key)>>

\* one iteration's trace: the progress message, then what the fetch does
IterationEvents(key, net) == <<Progress(key)>> \o net

\* a faulty variant: a failed fetch is caught and the loop goes on
FetchFailedNever(r) == FALSE

\* the fetch raised: nothing in retrieve_all catches it
FetchFailed(r) == r.exc # NoExc

\* the state the loop of retrieve_all threads through its iterations
Retrieval(exc, files, trace, failed) ==
    [exc |-> exc, files |-> files, trace |-> trace, failed |-> failed]

\* one iteration: the progress message, then the fetch of key
RetrieveStep(lst, key, reg, urlmap, stale, outcome) ==
    LET r == Fetch(reg, urlmap, lst.files, key, stale, outcome)
    IN  IF FetchFailed(r)
        THEN Retrieval(r.exc, r.files, lst.trace \o IterationEvents(key, r.net), key)
        ELSE Retrieval(NoExc, r.files, lst.trace \o IterationEvents(key, r.net), None)

\* the loop of retrieve_all over keys[i..], then the completion message; the
\* download of keys[failAt], if one is made, ends as kind says, every other
\* download succeeds
RECURSIVE RetrieveLoop(_, _, _, _, _, _, _, _)
RetrieveLoop(keys, i, lst, reg, urlmap, stale, failAt, kind) ==
    IF lst.exc # NoExc THEN lst
    ELSE IF i > Len(keys)
    THEN Retrieval(NoExc, lst.files, Append(lst.trace, Done), None)
    ELSE CHOOSE out \in
            {RetrieveLoop(keys, i + 1, nxt, reg, urlmap, stale, failAt, kind) :
                nxt \in {RetrieveStep(lst, keys[i], reg, urlmap, stale,
                                      IF i = failAt THEN kind ELSE "ok")}} : TRUE

\* retrieve_all once find_registerable_files has ended as d
retrieve_all(d, files, stale, failAt, kind) ==
    IF d.exc # NoExc
    THEN [exc |-> d.exc, registry |-> d.registry, urls |-> d.urls,
          files |-> files, trace |-> <<>>, failed |-> None]
    ELSE CHOOSE out \in
            {[exc |-> l.exc, registry |-> d.registry, urls |-> d.urls,
              files |-> l.files, trace |-> l.trace, failed |-> l.failed] :
                l \in {RetrieveLoop(DictKeys(d.registry), 1,
                                    Retrieval(NoExc, files, <<>>, None),
                                    d.registry, d.urls, stale, failAt, kind)}} : TRUE

Compositors == ListsOver({"ok", "ValueError"}, 1)

BulkInit ==
    /\ registry = <<>>
    /\ urls = <<>>
    /\ pre = [registry |-> <<>>, urls |-> <<>>, cache |-> {}, events |-> <<>>]
    /\ cache = {}
    /\ events = <<>>
    /\ last = Idle
    /\ nops = 0
    /\ env \in [compositors : Compositors,
                readers : ListsOver(LoadOutcomes, MaxReaders),
                writers : ListsOver(LoadOutcomes, MaxWriters)]
    /\ threads = NoThreads
    /\ hist = NoHist

FindRegisterableFiles ==
    /\ nops < MaxRuns
    /\ \E d \in {find_registerable_files(registry, urls, env)} :
           /\ registry' = d.registry
           /\ urls' = d.urls
           /\ last' = [op |-> "find_registerable_files", ret |-> d.ret, exc |-> d.exc]
    /\ pre' = Snapshot
    /\ nops' = nops + 1
    /\ UNCHANGED <<cache, events, env, threads, hist>>

\* the present files a fetch may find not to verify: those with a registered hash
Verified(reg, files) ==
    {k \in files : DictHas(reg, k) /\ DictGet(reg, k) # None}

RetrieveAll ==
    /\ nops < MaxRuns
    /\ \E d \in {find_registerable_files(registry, urls, env)} :
       \E failAt \in 0..Len(d.registry), kind \in {"network", "integrity"},
          stale \in SUBSET Verified(d.registry, cache) :
          /\ failAt = 0 => kind = "network"
          /\ failAt > 0 => OutcomeOk(d.registry, d.registry[failAt][1], kind)
          /\ \E a \in {retrieve_all(d, cache, stale, failAt, kind)} :
                /\ registry' = a.registry
                /\ urls' = a.urls
                /\ cache' = a.files
                /\ events' = events \o a.trace
                /\ last' = [op |-> "retrieve_all", ret |-> None, exc |-> a.exc,
                            failed |-> a.failed, failAt |-> failAt, kind |-> kind,
                            stale |-> stale]
    /\ pre' = Snapshot
    /\ nops' = nops + 1
    /\ UNCHANGED <<env, threads, hist>>

BulkNext == FindRegisterableFiles \/ RetrieveAll

SpecBulk == BulkInit /\ [][BulkNext]_vars

(* what the claims about discovery and bulk retrieval say *)

\* what the last call added to the trace
NewEvents == SubSeq(events, Len(pre.events) + 1, Len(events))

DownloadsOf(k) ==
    {i \in 1..Len(NewEvents) : NewEvents[i].type = "download" /\ NewEvents[i].key = k}

ProgressOf(k) == {i \in 1..Len(NewEvents) : NewEvents[i] = Progress(k)}

AllDownloads == {i \in 1..Len(NewEvents) : NewEvents[i].type = "download"}

AllProgress ==
    {i \in 1..Len(NewEvents) : NewEvents[i].type = Progress(None).type}

AllDone == {i \in 1..Len(NewEvents) : NewEvents[i] = Done}

\* N download attempts, one per registered key, N progress messages, each
\* before the attempt for its key, and one completion message at the end
ExactlyOneAttemptPerKey ==
    /\ Cardinality(AllDownloads) = Len(registry)
    /\ Cardinality(AllProgress) = Len(registry)
    /\ \A k \in KeySet(registry) :
          /\ Cardinality(DownloadsOf(k)) = 1
          /\ Cardinality(ProgressOf(k)) = 1
          /\ \A p \in ProgressOf(k), a \in DownloadsOf(k) : p < a
    /\ AllDone = {Len(NewEvents)}
    /\ \A a \in AllDownloads : a < Len(NewEvents)

ComponentKey(type, i) == type \o <<"/">> \o <<ASCII[Ord("a") + i - 1]>>

\* C7: find_registerable_files returns normally whichever configurations fail
\* to load (missing dependency, malformed configuration), with the keys of
\* every component that did load registered.
C7_DiscoverySkipsFailedLoads ==
    last.op = "find_registerable_files" =>
        /\ last.exc = NoExc
        /\ \A i \in 1..Len(env.compositors) :
              env.compositors[i] = "ok" => DictHas(registry, ComponentKey(COMPOSITES, i))
        /\ \A i \in 1..Len(env.readers) :
              env.readers[i] = "ok" => DictHas(registry, ComponentKey(READERS, i))
        /\ \A i \in 1..Len(env.writers) :
              env.writers[i] = "ok" => DictHas(registry, ComponentKey(WRITERS, i))
        /\ {last.ret[i] : i \in 1..Len(last.ret)} = KeySet(registry)

\* the fetch that the oracle of the last retrieve_all makes fail is attempted:
\* discovery did not raise and the key's file is not served from the cache
FetchFails ==
    /\ last.op = "retrieve_all"
    /\ last.exc \notin LoadOutcomes
    /\ last.failAt > 0
    /\ LET k == registry[last.failAt][1]
       IN  k \notin pre.cache \/ (k \in last.stale /\ DictGet(registry, k) # None)

\* C9: when the fetch of a key fails in retrieve_all, the error reaches the
\* caller, the failed attempt is the last entry of the trace (no later
\* progress or completion message), no later key is attempted, and the files
\* fetched before stay cached.
C9_FailFast ==
    FetchFails =>
        LET j == last.failAt
            k == registry[j][1]
        IN  /\ last.exc = IF last.kind = "network" THEN "NetworkError" ELSE "IntegrityError"
            /\ NewEvents # <<>>
            /\ NewEvents[Len(NewEvents)].type = "download"
            /\ NewEvents[Len(NewEvents)].key = k
            /\ AllDone = {}
            /\ \A i \in (j + 1)..Len(registry) :
                  DownloadsOf(registry[i][1]) = {} /\ ProgressOf(registry[i][1]) = {}
            /\ \A i \in 1..(j - 1) : registry[i][1] \in cache
            /\ pre.cache \subseteq cache

\* a fetch fails after one file was fetched and before another was tried
C9_Witness ==
    /\ FetchFails
    /\ last.failAt >= 2
    /\ last.failAt < Len(registry)
    /\ registry[1][1] \in cache \ pre.cache
    /\ last.exc = "NetworkError"

----------------------------------------------------------------------------
(* register_file called from two threads: SpecConc *)

Threads == {1, 2}

ThreadIdle == [pc |-> "idle", url |-> None, known_hash |-> None, fname |-> None]

ConcInit ==
    /\ registry = <<>>
    /\ urls = <<>>
    /\ cache = {}
    /\ events = <<>>
    /\ last = Idle
    /\ pre = [registry |-> <<>>, urls |-> <<>>, cache |-> {}, events |-> <<>>]
    /\ nops = 0
    /\ env = NoEnv
    /\ threads = [t \in Threads |-> ThreadIdle]
    /\ hist = [calls |-> {}, overlapped |-> FALSE, latest |-> <<>>]

\* a thread enters register_file and computes the key (fname = ...)
Call(t) ==
    /\ threads[t].pc = "idle"
    /\ nops < MaxCalls
    /\ \E url \in Urls, filename \in {FA, FB}, h \in Hashes :
          LET fname == _generate_filename(filename, READERS)
          IN  /\ threads' = [threads EXCEPT ![t] =
                     [pc |-> "store_hash", url |-> url, known_hash |-> h, fname |-> fname]]
              /\ hist' = [calls |-> hist.calls \cup {<<fname, url, h>>},
                          overlapped |-> hist.overlapped
                                         \/ \E o \in Threads \ {t} : threads[o].pc # "idle",
                          latest |-> DictSet(hist.latest, fname, <<url, h>>)]
    /\ nops' = nops + 1
    /\ UNCHANGED <<registry, urls, cache, events, last, pre, env>>

\* _FILE_REGISTRY[fname] = known_hash
StoreHash(t) ==
    /\ threads[t].pc = "store_hash"
    /\ registry' = RegisterHash(registry, threads[t].fname, threads[t].known_hash)
    /\ threads' = [threads EXCEPT ![t].pc = "store_url"]
    /\ UNCHANGED <<urls, cache, events, last, pre, nops, env, hist>>

\* _FILE_URLS[fname] = url; return fname
StoreUrl(t) ==
    /\ threads[t].pc = "store_url"
    /\ urls' = RegisterUrls(urls, threads[t].fname, threads[t].url)
    /\ threads' = [threads EXCEPT ![t] = ThreadIdle]
    /\ last' = [op |-> "register_file", ret |-> threads[t].fname, exc |-> NoExc]
    /\ UNCHANGED <<registry, cache, events, pre, nops, env, hist>>

ConcNext == \E t \in Threads : Call(t) \/ StoreHash(t) \/ StoreUrl(t)

SpecConc == ConcInit /\ [][ConcNext]_vars

Quiescent == \A t \in Threads : threads[t].pc = "idle"

\* C10: when no two calls of register_file have overlapped, then once every
\* call has returned each key's URL and hash are those of the most recent
\* registration of that key; overlapping calls can leave a key with the hash
\* of one call and the URL of another (C10_Witness).
C10_SequentialCallsConsistent ==
    (Quiescent /\ ~hist.overlapped) =>
        /\ KeySet(registry) = KeySet(hist.latest)
        /\ KeySet(urls) = KeySet(hist.latest)
        /\ \A k \in KeySet(hist.latest) :
              <<DictGet(urls, k), DictGet(registry, k)>> = DictGet(hist.latest, k)

\* every call has returned, and a key holds the hash of one call and the URL
\* of another, a pair no call registered
C10_Witness ==
    /\ Quiescent
    /\ \E k \in KeySet(registry) \cap KeySet(urls) :
          /\ <<k, DictGet(urls, k), DictGet(registry, k)>> \notin hist.calls
          /\ \E c1 \in hist.calls, c2 \in hist.calls :
                /\ c1[1] = k /\ c2[1] = k /\ c1 # c2
                /\ DictGet(registry, k) = c1[3]
                /\ DictGet(urls, k) = c2[2]

====
